---- MODULE Spec2Model ----
(***************************************************************************)
(* A model of the b0t workflow execution queue                             *)
(* (src/lib/workflows/workflow-queue.ts) together with the parts it drives: *)
(* the Step Executor (executeWorkflow), the queue registry of ../queue and  *)
(* the job life cycle of the broker-backed worker it configures.           *)
(*                                                                         *)
(* Time is counted in milliseconds and advances in steps of TickMs, the    *)
(* base backoff delay, so that every delay the code configures (10 s       *)
(* backoff, 60 s limiter window) is a whole number of steps.               *)
(***************************************************************************)
EXTENDS Integers, Sequences, FiniteSets, TLC

VARIABLES
  redisUrl,      \* process.env.REDIS_URL is set
  queues,        \* the queue registry of ../queue: the set of registered queue names
  workers,       \* the worker registry of ../queue: the set of queue names with a worker
  initResult,    \* what initializeWorkflowQueue returned: "none" before it ran
  initOptions,   \* the options initializeWorkflowQueue was called with
  workerOpts,    \* the options the worker was created with
  jobs,          \* the jobs of the queue, a sequence indexed by job id
  calls,         \* the trigger requests: one record per caller
  limiter,       \* the worker's rate limiter: [count, ttl]
  startsLog,     \* job starts in each of the last WindowTicks time steps, newest first
  modal,         \* RunOutputModal: the run shown, the returnValue and the output displayed
  apiKeys,       \* the api_keys table
  now,           \* the clock API key expiry is read against
  requests,      \* the requests made to the external API, with their responses
  workflowsTable,\* the workflows table: the rows' id, userId and organizationId
  auditLog,      \* the api_key_audit_log table
  usage,         \* the twitter_usage table: one row per window type
  trackers       \* the trackTwitterUsage calls in progress

\* The state of the execution queue, and the state outside it.
queueVars == <<redisUrl, queues, workers, initResult, initOptions, workerOpts,
               jobs, calls, limiter, startsLog>>
frontVars == <<modal, apiKeys, now, requests>>
dataVars == <<workflowsTable, auditLog, usage, trackers>>

vars == <<queueVars, frontVars, dataVars>>

----------------------------------------------------------------------------
\* Bounds of the model.

MaxCalls == 2            \* trigger requests
MaxSteps == 2            \* steps of the longest workflow
MaxConcurrencyOpt == 1   \* largest options.concurrency passed explicitly
MaxRateOpt == 1          \* largest options.maxJobsPerMinute passed explicitly

\* Program constants.

WORKFLOW_QUEUE_NAME == "workflows-execution"
DefaultConcurrency == 10
DefaultMaxJobsPerMinute == 100
attempts_four == 3 + 1
attempts == 3
backoffDelay == 10000
limiterDuration == 60000
DIRECT_EXECUTION == "direct-execution"
DefaultPriority == 5

TickMs == backoffDelay
WindowTicks == limiterDuration \div TickMs

\* Workflow n is the workflow with the n steps s1..sn; step k has id k.
Workflows == 1..MaxSteps
TriggerTypes == {"manual", "cron"}
\* The options initializeWorkflowQueue is called with: none, or both given.
\* 0 stands for an option that is not given (undefined): as 0 it is falsy.
NoOptions == [concurrency |-> 0, maxJobsPerMinute |-> 0]
InitOptionSets ==
  {NoOptions} \cup
  {[concurrency |-> c, maxJobsPerMinute |-> m] :
     c \in 1..MaxConcurrencyOpt, m \in 1..MaxRateOpt}
InitOutcomes == {"ok", "createQueueThrows", "createWorkerThrows"}
\* The options queueWorkflowExecution is called with: each of priority and delay
\* is given or not; one that is not given reads as undefined.
NoJobOptions ==
  [hasPriority |-> FALSE, priority |-> 0, hasDelay |-> FALSE, delay |-> 0]
JobOptionSets ==
  {NoJobOptions,
   [hasPriority |-> TRUE, priority |-> 1, hasDelay |-> TRUE, delay |-> TickMs]}
SuppliedJobOptionSets ==
  JobOptionSets \cup
    {[hasPriority |-> TRUE, priority |-> priority, hasDelay |-> hasDelay,
      delay |-> IF hasDelay THEN 2 * TickMs ELSE 0] :
       priority \in {0, 10}, hasDelay \in BOOLEAN}

----------------------------------------------------------------------------
\* The Step Executor (executeWorkflow).

NumSteps(w) == w

\* The steps of a workflow: step k has id k, one template input and an outputAs
\* key. The first step reads {{trigger}}, every later step the output of the step
\* before it.
TRIGGER == "trigger"
OutputAs == <<"now", "future", "formatted">>
Step(k) ==
  [id |-> k, input |-> IF k = 1 THEN TRIGGER ELSE OutputAs[k - 1],
   outputAs |-> OutputAs[k]]

\* Values carry the run input they derive from (workflow and trigger type) and the
\* step that produced them; NoValue is what a missing path leaves.
NoValue == [origin |-> <<0, "">>, step |-> 0]

\* The Variable Context a run starts with: the reserved trigger namespace.
InitialContext(w, t) == (TRIGGER :> [origin |-> <<w, t>>, step |-> 0])

\* Template resolution of an input against the context.
Resolve(path, context) ==
  IF path \in DOMAIN context THEN context[path] ELSE NoValue

\* The value the module of step k returns for its resolved input.
InvokeModule(k, input) == [origin |-> input.origin, step |-> k]

\* StoreOutput with the write lost.
StoreOutput_skip(context, key, value) == context

\* set(key, value) of the Variable Context.
StoreOutput(context, key, value) == (key :> value) @@ context

\* The error message a failure of step k's module is recorded with.
ErrorMessages == <<"now failed", "future failed", "formatted failed">>

\* The Run created when execution begins. from is the step the run begins with,
\* snapshots the context each executed step resolved its inputs against.
NewRun(w, t) ==
  [workflowId |-> w, triggerType |-> t, status |-> "running",
   error |-> "", errorStep |-> 0, executed |-> <<>>, outcomes |-> <<>>,
   from |-> 1, context |-> InitialContext(w, t), snapshots |-> <<>>]

NextStep(run) == run.from + Len(run.executed)

\* ExecStep with the abort on failure lost: the failure is recorded and the loop
\* goes on to the remaining steps.
ExecStep_continue(run, ok) ==
  LET k == NextStep(run)
      failed == IF run.errorStep # 0 THEN run.errorStep ELSE IF ~ok THEN k ELSE 0 IN
  [run EXCEPT !.executed = Append(@, k),
              !.outcomes = Append(@, ok),
              !.snapshots = Append(@, run.context),
              !.context = IF ok
                          THEN StoreOutput(@, Step(k).outputAs,
                                           InvokeModule(k, Resolve(Step(k).input, @)))
                          ELSE @,
              !.status = IF k < NumSteps(run.workflowId) THEN "running"
                         ELSE IF failed # 0 THEN "error" ELSE "success",
              !.error = IF failed # 0 THEN ErrorMessages[failed] ELSE "",
              !.errorStep = failed]

\* One step of the run: the next step in declaration order resolves its input
\* against the context and its module is invoked; on success the returned value is
\* stored under outputAs; a failure records the step and ends the run, the last
\* step's success ends it with success. executed counts the module calls made (the
\* side effects), outcomes what each of them returned.
ExecStep(run, ok) ==
  LET k == NextStep(run) IN
  [run EXCEPT !.executed = Append(@, k),
              !.outcomes = Append(@, ok),
              !.snapshots = Append(@, run.context),
              !.context = IF ok
                          THEN StoreOutput(@, Step(k).outputAs,
                                           InvokeModule(k, Resolve(Step(k).input, @)))
                          ELSE @,
              !.status = IF ~ok THEN "error"
                         ELSE IF k = NumSteps(run.workflowId) THEN "success"
                         ELSE "running",
              !.error = IF ~ok THEN ErrorMessages[k] ELSE "",
              !.errorStep = IF ~ok THEN k ELSE 0]

\* A whole run: the steps in order until one fails or all are done. failAt is the
\* step whose module call fails, 0 when none does.
RECURSIVE RunWorkflow(_, _)
RunWorkflow(run, failAt) ==
  IF run.status # "running" THEN run
  ELSE RunWorkflow(ExecStep(run, NextStep(run) # failAt), failAt)

\* What executeWorkflow returns for a run that ended.
RunResult(run) ==
  [success |-> run.status = "success", error |-> run.error,
   errorStep |-> run.errorStep]

----------------------------------------------------------------------------
\* initializeWorkflowQueue.

Concurrency(options) ==
  IF options.concurrency = 0 THEN DefaultConcurrency ELSE options.concurrency

MaxJobsPerMinute(options) ==
  IF options.maxJobsPerMinute = 0 THEN DefaultMaxJobsPerMinute
  ELSE options.maxJobsPerMinute

\* WorkerOptions with the concurrency option not passed on.
WorkerOptions_hardcoded(options) ==
  [concurrency |-> DefaultConcurrency,
   limiter |-> [max |-> MaxJobsPerMinute(options), duration |-> limiterDuration]]

\* WorkerOptions with the rate option not passed on.
WorkerOptions_defaultRate(options) ==
  [concurrency |-> Concurrency(options),
   limiter |-> [max |-> DefaultMaxJobsPerMinute, duration |-> limiterDuration]]

\* The options createWorker is called with.
WorkerOptions(options) ==
  [concurrency |-> Concurrency(options),
   limiter |-> [max |-> MaxJobsPerMinute(options), duration |-> limiterDuration]]

NoWorkerOptions == [concurrency |-> 0, limiter |-> [max |-> 0, duration |-> 0]]

\* outcome: "ok", or which of createQueue / createWorker throws.
InitializeWorkflowQueue(options, outcome) ==
  /\ initResult = "none"
  /\ initOptions' = options
  /\ IF ~redisUrl
       THEN /\ initResult' = "false"
            /\ UNCHANGED <<queues, workers, workerOpts>>
     ELSE IF outcome = "createQueueThrows"
       THEN /\ initResult' = "false"
            /\ UNCHANGED <<queues, workers, workerOpts>>
     ELSE IF outcome = "createWorkerThrows"
       THEN /\ queues' = queues \cup {WORKFLOW_QUEUE_NAME}
            /\ initResult' = "false"
            /\ UNCHANGED <<workers, workerOpts>>
     ELSE /\ queues' = queues \cup {WORKFLOW_QUEUE_NAME}
          /\ workers' = workers \cup {WORKFLOW_QUEUE_NAME}
          /\ workerOpts' = WorkerOptions(options)
          /\ initResult' = "true"
  /\ UNCHANGED <<frontVars, dataVars, redisUrl, jobs, calls, limiter, startsLog>>

isWorkflowQueueAvailable == redisUrl /\ WORKFLOW_QUEUE_NAME \in queues

----------------------------------------------------------------------------
\* queueWorkflowExecution and the direct call of executeWorkflow.

CallIds == 1..Len(calls)

BlankCall ==
  [pc |-> "idle", op |-> "none", workflowId |-> 0, triggerType |-> "",
   probe |-> FALSE, result |-> [jobId |-> "", queued |-> FALSE],
   execResult |-> [success |-> FALSE, error |-> "", errorStep |-> 0],
   error |-> "", run |-> <<>>]

\* The job addJob creates: options.priority || 5, and options.delay as given.
\* undefined and 0 are falsy.
JobPriority(options) ==
  IF options.hasPriority /\ options.priority # 0
  THEN options.priority ELSE DefaultPriority

\* A job with no delay given waits 0 ms.
JobDelay(options) == IF options.hasDelay THEN options.delay ELSE 0

\* options records what the caller passed.
NewJob(w, t, options) ==
  [workflowId |-> w, triggerType |-> t, state |-> "queued", attemptsMade |-> 0,
   priority |-> JobPriority(options), delay |-> JobDelay(options),
   delays |-> <<>>, runs |-> <<>>, options |-> options]

\* FallbackArgs with the trigger type not passed on.
FallbackArgs_manual(w, t) == [workflowId |-> w, triggerType |-> "manual"]

\* The arguments the fallback passes to executeWorkflow.
FallbackArgs(w, t) == [workflowId |-> w, triggerType |-> t]

\* FallbackResult returning what the queued path returns.
FallbackResult_queued == [jobId |-> "unknown", queued |-> TRUE]

\* What the fallback returns once executeWorkflow has returned.
FallbackResult == [jobId |-> DIRECT_EXECUTION, queued |-> FALSE]

\* queues.get(WORKFLOW_QUEUE_NAME) finds no queue.
QueueMissing == WORKFLOW_QUEUE_NAME \notin queues

\* The part of queueWorkflowExecution that runs before its first await.
QueueWorkflowExecution(w, t, options) ==
  /\ Len(calls) < MaxCalls
  /\ LET call == [BlankCall EXCEPT !.op = "queueWorkflowExecution", !.workflowId = w,
                                   !.triggerType = t,
                                   !.probe = isWorkflowQueueAvailable] IN
     IF ~redisUrl
       THEN /\ calls' = Append(calls, [call EXCEPT !.pc = "executing"])
            /\ UNCHANGED jobs
     ELSE IF QueueMissing
       THEN /\ calls' = Append(calls,
                           [call EXCEPT !.pc = "raised",
                                        !.error = "Workflow queue not initialized"])
            /\ UNCHANGED jobs
     ELSE /\ jobs' = Append(jobs, NewJob(w, t, options))
          /\ calls' = Append(calls,
                         [call EXCEPT !.pc = "returned",
                                      !.result = [jobId |-> ToString(Len(jobs) + 1),
                                                  queued |-> TRUE]])
  /\ UNCHANGED <<frontVars, dataVars, redisUrl, queues, workers, initResult, initOptions, workerOpts,
                 limiter, startsLog>>

\* A caller invoking the Step Executor itself, as the run endpoints do when
\* isWorkflowQueueAvailable() is false.
ExecuteWorkflowDirect(w, t) ==
  /\ Len(calls) < MaxCalls
  /\ ~isWorkflowQueueAvailable
  /\ calls' = Append(calls,
                 [BlankCall EXCEPT !.op = "executeWorkflow", !.workflowId = w,
                                   !.triggerType = t, !.pc = "executing",
                                   !.probe = isWorkflowQueueAvailable])
  /\ UNCHANGED <<frontVars, dataVars, redisUrl, queues, workers, initResult, initOptions, workerOpts,
                 jobs, limiter, startsLog>>

\* executeWorkflow begins for a call that awaits it: it creates the Run, or raises.
CallBegin(c, raises) ==
  /\ calls[c].pc = "executing"
  /\ calls[c].run = <<>>
  /\ LET args == IF calls[c].op = "queueWorkflowExecution"
                 THEN FallbackArgs(calls[c].workflowId, calls[c].triggerType)
                 ELSE [workflowId |-> calls[c].workflowId,
                       triggerType |-> calls[c].triggerType] IN
     calls' = [calls EXCEPT ![c] =
                 IF raises THEN [@ EXCEPT !.pc = "raised", !.error = "executor"]
                 ELSE [@ EXCEPT !.run = <<NewRun(args.workflowId, args.triggerType)>>]]
  /\ UNCHANGED <<frontVars, dataVars, redisUrl, queues, workers, initResult, initOptions, workerOpts,
                 jobs, limiter, startsLog>>

\* The awaited executeWorkflow runs its next step; when the run ends the call returns.
CallStep(c, ok) ==
  /\ calls[c].pc = "executing"
  /\ calls[c].run # <<>>
  /\ LET run == ExecStep(calls[c].run[1], ok) IN
     calls' = [calls EXCEPT ![c] =
                 IF run.status = "running" THEN [@ EXCEPT !.run = <<run>>]
                 ELSE IF calls[c].op = "queueWorkflowExecution"
                   THEN [@ EXCEPT !.run = <<run>>, !.pc = "returned",
                                  !.result = FallbackResult]
                 ELSE [@ EXCEPT !.run = <<run>>, !.pc = "returned",
                                !.execResult = RunResult(run)]]
  /\ UNCHANGED <<frontVars, dataVars, redisUrl, queues, workers, initResult, initOptions, workerOpts,
                 jobs, limiter, startsLog>>

\* The calls the run endpoints make: queueWorkflowExecution when
\* isWorkflowQueueAvailable() is true, executeWorkflow itself when it is not.
IsRouteCall(call) ==
  \/ call.op = "executeWorkflow"
  \/ call.op = "queueWorkflowExecution" /\ call.probe

NoResponse ==
  [status |-> 0, success |-> FALSE, queued |-> FALSE, jobId |-> "",
   error |-> "", errorStep |-> 0]

\* RouteResponse with the failing step left out of the error response.
RouteResponse_noErrorStep(call) ==
  IF call.pc = "raised"
    THEN [NoResponse EXCEPT !.status = 500, !.error = call.error]
  ELSE IF call.op = "queueWorkflowExecution"
    THEN [NoResponse EXCEPT !.status = 200, !.success = TRUE,
                            !.queued = call.result.queued,
                            !.jobId = call.result.jobId]
  ELSE IF ~call.execResult.success
    THEN [NoResponse EXCEPT !.status = 500, !.error = call.execResult.error]
  ELSE [NoResponse EXCEPT !.status = 200, !.success = TRUE]

\* The response of POST /api/workflows/[id]/run to a request whose call has
\* ended: the catch block's response when the call raised, else the queued
\* response, else the direct run's result.
RouteResponse(call) ==
  IF call.pc = "raised"
    THEN [NoResponse EXCEPT !.status = 500, !.error = call.error]
  ELSE IF call.op = "queueWorkflowExecution"
    THEN [NoResponse EXCEPT !.status = 200, !.success = TRUE,
                            !.queued = call.result.queued,
                            !.jobId = call.result.jobId]
  ELSE IF ~call.execResult.success
    THEN [NoResponse EXCEPT !.status = 500, !.error = call.execResult.error,
                            !.errorStep = call.execResult.errorStep]
  ELSE [NoResponse EXCEPT !.status = 200, !.success = TRUE]

----------------------------------------------------------------------------
\* The worker: the job life cycle the queue and worker options configure.

JobIds == 1..Len(jobs)
ActiveJobs == {j \in JobIds : jobs[j].state = "active"}

\* The rate limiter admits a start when its window has expired or has room.
LimiterAdmits == limiter.ttl = 0 \/ limiter.count < workerOpts.limiter.max

\* The window opens with the first start after the last one expired.
LimiterAfterStart ==
  IF limiter.ttl = 0 THEN [count |-> 1, ttl |-> workerOpts.limiter.duration]
  ELSE [limiter EXCEPT !.count = @ + 1]

\* A worker takes a waiting job: queued -> active. log says whether the start is
\* entered in startsLog.
JobStart(j, log) ==
  /\ WORKFLOW_QUEUE_NAME \in workers
  /\ jobs[j].state = "queued"
  /\ jobs[j].delay = 0
  /\ Cardinality(ActiveJobs) < workerOpts.concurrency
  /\ LimiterAdmits
  /\ jobs' = [jobs EXCEPT ![j].state = "active"]
  /\ limiter' = LimiterAfterStart
  /\ startsLog' = IF log THEN [startsLog EXCEPT ![1] = @ + 1] ELSE startsLog
  /\ UNCHANGED <<frontVars, dataVars, redisUrl, queues, workers, initResult, initOptions, workerOpts, calls>>

\* The processor returning whatever executeWorkflow returned.
Processor_returns(result) == "return"

\* The processor's verdict on what executeWorkflow returned.
Processor(result) == IF ~result.success THEN "throw" ELSE "return"

\* The delay before the retry that follows the n-th failed attempt.
Backoff(n) == backoffDelay * 2 ^ (n - 1)

MoveToFailed(job) == [job EXCEPT !.state = "failed", !.attemptsMade = @ + 1]
MoveToCompleted(job) == [job EXCEPT !.state = "completed", !.attemptsMade = @ + 1]

\* AttemptStart resuming at the step the attempt before failed at.
AttemptStart_resume(job) ==
  IF job.runs = <<>> \/ job.runs[Len(job.runs)].errorStep = 0 THEN 1
  ELSE job.runs[Len(job.runs)].errorStep

\* The step an attempt begins with: the processor calls executeWorkflow with the
\* job's data alone, which holds no step position.
AttemptStart(job) == 1

\* The Run an attempt of the job creates.
AttemptRun(job) ==
  [NewRun(job.workflowId, job.triggerType) EXCEPT !.from = AttemptStart(job)]

\* One attempt of the processor: it awaits executeWorkflow, which creates the
\* attempt's Run and runs it to its end (or raises before there is a Run), and then
\* returns or throws; the job leaves the active state. failAt is the step whose
\* module call fails in this attempt, 0 when none does.
WorkerRun(j, raises, failAt) ==
  /\ jobs[j].state = "active"
  /\ failAt <= NumSteps(jobs[j].workflowId)
  /\ raises => failAt = 0
  /\ LET run == RunWorkflow(AttemptRun(jobs[j]), failAt)
         job == [jobs[j] EXCEPT !.runs = Append(@, run)] IN
     jobs' = [jobs EXCEPT ![j] =
                IF raises THEN MoveToFailed(@)
                ELSE IF Processor(RunResult(run)) = "throw" THEN MoveToFailed(job)
                ELSE MoveToCompleted(job)]
  /\ UNCHANGED <<frontVars, dataVars, redisUrl, queues, workers, initResult, initOptions, workerOpts,
                 calls, limiter, startsLog>>

\* A failed attempt below the attempt limit is queued again after its backoff.
JobRetry(j) ==
  /\ jobs[j].state = "failed"
  /\ jobs[j].attemptsMade < attempts
  /\ jobs' = [jobs EXCEPT ![j] =
                [@ EXCEPT !.state = "queued",
                          !.delay = Backoff(jobs[j].attemptsMade),
                          !.delays = Append(@, Backoff(jobs[j].attemptsMade))]]
  /\ UNCHANGED <<frontVars, dataVars, redisUrl, queues, workers, initResult, initOptions, workerOpts,
                 calls, limiter, startsLog>>

TerminallyFailed(job) == job.state = "failed" /\ job.attemptsMade >= attempts

Max(a, b) == IF a > b THEN a ELSE b

TimersRunning(log) ==
  \/ limiter.ttl > 0
  \/ \E j \in JobIds : jobs[j].delay > 0
  \/ log /\ \E i \in 1..WindowTicks : startsLog[i] > 0

\* TickMs milliseconds pass: delays and the limiter's window run down.
Tick(log) ==
  /\ TimersRunning(log)
  /\ jobs' = [j \in JobIds |-> [jobs[j] EXCEPT !.delay = Max(@ - TickMs, 0)]]
  /\ limiter' = IF limiter.ttl <= TickMs THEN [count |-> 0, ttl |-> 0]
                ELSE [limiter EXCEPT !.ttl = @ - TickMs]
  /\ startsLog' = IF log
                  THEN [i \in 1..WindowTicks |-> IF i = 1 THEN 0 ELSE startsLog[i - 1]]
                  ELSE startsLog
  /\ UNCHANGED <<frontVars, dataVars, redisUrl, queues, workers, initResult, initOptions, workerOpts, calls>>

----------------------------------------------------------------------------
\* The Output Extractor (RunOutputModal): what is displayed for run.output under
\* the workflow's returnValue.

MaxItems == 1            \* longest array in a run output
MaxPasses == 2           \* times an output is stored back and shown again

\* The values of run.output: JSON values, and the functions every object inherits.
Null == [t |-> "null"]
Num(n) == [t |-> "number", n |-> n]
Str(x) == [t |-> "string", s |-> x]
Arr(items) == [t |-> "array", items |-> items]
Obj(fields) == [t |-> "object", fields |-> fields]
Fn(name) == [t |-> "function", name |-> name]
Undefined == [t |-> "undefined"]

\* value && ..., typeof value === 'object', Array.isArray(value)
Truthy(v) ==
  ~ \/ v.t \in {"null", "undefined"}
    \/ v.t = "number" /\ v.n = 0
    \/ v.t = "string" /\ v.s = ""
TypeofObject(v) == v.t \in {"object", "array", "null"}
IsArray(v) == v.t = "array"

\* The property names of a value: its own, and those it inherits from
\* Object.prototype (constructor stands for them).
IndexKey(i) == ToString(i - 1)
OwnKeys(v) ==
  IF v.t = "object" THEN DOMAIN v.fields
  ELSE IF v.t = "array" THEN {IndexKey(i) : i \in 1..Len(v.items)} \cup {"length"}
  ELSE {}
InheritedKeys(v) == IF v.t \in {"object", "array"} THEN {"constructor"} ELSE {}

\* key in value
KeyIn(key, v) == key \in OwnKeys(v) \cup InheritedKeys(v)

\* value[key]
Get(v, key) ==
  IF v.t = "object" /\ key \in DOMAIN v.fields THEN v.fields[key]
  ELSE IF v.t = "array" /\ key = "length" THEN Num(Len(v.items))
  ELSE IF v.t = "array" /\ \E i \in 1..Len(v.items) : IndexKey(i) = key
    THEN v.items[CHOOSE i \in 1..Len(v.items) : IndexKey(i) = key]
  ELSE IF key \in InheritedKeys(v)
    THEN Fn(IF v.t = "array" THEN "Array" ELSE "Object")
  ELSE Undefined

\* A returnValue is a string, held as its sequence of tokens: "{{", "}}", ".",
\* " " and names. <<>> is the empty string, which stands for no returnValue too.
OPEN == "{{"
CLOSE == "}}"
DOT == "."
SPACE == " "
NoReturnValue == <<>>
Template(path) == <<OPEN>> \o path \o <<CLOSE>>

\* returnValue.match(/^\{\{([^}]+)\}\}$/): the captured group, or <<>> for no match
\* (the group is never empty when the string matches).
Match(returnValue) ==
  IF /\ Len(returnValue) >= 3
     /\ returnValue[1] = OPEN
     /\ returnValue[Len(returnValue)] = CLOSE
     /\ \A i \in 2..(Len(returnValue) - 1) : returnValue[i] # CLOSE
  THEN SubSeq(returnValue, 2, Len(returnValue) - 1)
  ELSE <<>>

\* match[1].trim()
RECURSIVE TrimStart(_)
TrimStart(str) ==
  IF str # <<>> /\ Head(str) = SPACE THEN TrimStart(Tail(str)) ELSE str
RECURSIVE TrimEnd(_)
TrimEnd(str) ==
  IF str # <<>> /\ str[Len(str)] = SPACE
  THEN TrimEnd(SubSeq(str, 1, Len(str) - 1)) ELSE str
Trim(str) == TrimEnd(TrimStart(str))

\* path.split('.'): the pieces between the dots, each a string.
RECURSIVE Split(_)
Split(str) ==
  IF \A i \in 1..Len(str) : str[i] # DOT THEN <<str>>
  ELSE LET d == CHOOSE i \in 1..Len(str) :
                  str[i] = DOT /\ \A h \in 1..(i - 1) : str[h] # DOT IN
       <<SubSeq(str, 1, d - 1)>> \o Split(SubSeq(str, d + 1, Len(str)))

\* A piece as a property name: a single name is that name; the empty piece is the
\* empty name; any longer piece is a name no output of the model has.
COMPOSITE == "<several tokens>"
KeyOf(piece) ==
  IF piece = <<>> THEN "" ELSE IF Len(piece) = 1 THEN piece[1] ELSE COMPOSITE

\* The loop over the keys: descend while the value is an object that has the key;
\* otherwise the path is not found and the full output is used.
RECURSIVE Traverse(_, _, _)
Traverse(keys, value, output) ==
  IF keys = <<>> THEN value
  ELSE IF Truthy(value) /\ TypeofObject(value) /\ KeyIn(KeyOf(Head(keys)), value)
    THEN Traverse(Tail(keys), Get(value, KeyOf(Head(keys))), output)
  ELSE output

\* The keys the auto-filter skips: internal variables, credential variables
\* (a name that includes _apikey or _api_key) and known credential platforms.
internalKeys == {"user", "trigger"}
credentialPlatforms ==
  {"openai", "anthropic", "youtube", "slack", "twitter", "github", "reddit"}
\* The names of the model's output keys, split where a credential pattern occurs.
KeyParts(key) ==
  IF key = "my_api_key" THEN <<"my", "_api_key">>
  ELSE IF key = "openai_apikey" THEN <<"openai", "_apikey">>
  ELSE <<key>>
Includes(key, pattern) == \E i \in 1..Len(KeyParts(key)) : KeyParts(key)[i] = pattern
\* The skip test without the list of credential platforms.
Skipped_noPlatforms(key) ==
  \/ key \in internalKeys
  \/ Includes(key, "_apikey") \/ Includes(key, "_api_key")

Skipped(key) ==
  \/ key \in internalKeys
  \/ Includes(key, "_apikey") \/ Includes(key, "_api_key")
  \/ key \in credentialPlatforms

\* AutoFilter applying one rule per pass: the internal keys when there are any,
\* the credential keys otherwise.
AutoFilter_oneRule(output) ==
  LET internal == DOMAIN output.fields \cap internalKeys
      kept == IF internal # {} THEN DOMAIN output.fields \ internal
              ELSE {key \in DOMAIN output.fields : ~Skipped(key)} IN
  IF kept # {} THEN Obj([key \in kept |-> output.fields[key]]) ELSE output

\* AutoFilter with an empty result shown as it is.
AutoFilter_noFallback(output) ==
  LET kept == {key \in DOMAIN output.fields : ~Skipped(key)} IN
  Obj([key \in kept |-> output.fields[key]])

\* The auto-filter: the entries that are not skipped, or the original output when
\* none is left.
AutoFilter(output) ==
  LET kept == {key \in DOMAIN output.fields : ~Skipped(key)} IN
  IF kept # {} THEN Obj([key \in kept |-> output.fields[key]]) ELSE output

\* run.output && typeof run.output === 'object' && !Array.isArray(run.output)
IsPlainObject(v) == Truthy(v) /\ TypeofObject(v) /\ ~IsArray(v)

\* ProcessedOutput with the returnValue applied to arrays too.
ProcessedOutput_noArrayGuard(returnValue, output) ==
  IF returnValue # <<>> /\ Truthy(output) /\ TypeofObject(output)
    THEN IF Match(returnValue) # <<>>
         THEN Traverse(Split(Trim(Match(returnValue))), output, output)
         ELSE output
  ELSE IF returnValue # <<>> THEN output
  ELSE IF IsPlainObject(output) THEN AutoFilter(output)
  ELSE output

\* processedOutput for a run output and a returnValue.
ProcessedOutput(returnValue, output) ==
  IF returnValue # <<>> /\ IsPlainObject(output)
    THEN IF Match(returnValue) # <<>>
         THEN Traverse(Split(Trim(Match(returnValue))), output, output)
         ELSE output
  ELSE IF returnValue # <<>> /\ IsArray(output) THEN output
  ELSE IF returnValue # <<>> THEN output
  ELSE IF IsPlainObject(output) THEN AutoFilter(output)
  ELSE output

\* The run outputs and returnValues of the model.
Leaves == {Null, Num(0), Str("x")}
RECURSIVE SeqsUpTo(_, _)
SeqsUpTo(S, n) ==
  IF n = 0 THEN {<<>>}
  ELSE SeqsUpTo(S, n - 1) \cup
       {Append(q, x) : q \in {r \in SeqsUpTo(S, n - 1) : Len(r) = n - 1}, x \in S}
Arrays == {Arr(items) : items \in SeqsUpTo({Num(0), Str("x")}, MaxItems)}
Inner == {Obj(f) : f \in UNION {[K -> Leaves] : K \in SUBSET {"a"}}}
ValuesOf(key) ==
  IF key = "result" THEN Leaves \cup Arrays \cup Inner
  ELSE IF key = "user" THEN {Obj([k \in {"a"} |-> Str("x")])}
  ELSE {Str("x")}
OutputKeys == {"user", "trigger", "openai", "my_api_key", "result", "now"}
Objects ==
  {Obj(f) : f \in UNION {{g \in [K -> Leaves \cup Arrays \cup Inner] :
                            \A key \in K : g[key] \in ValuesOf(key)} :
                         K \in SUBSET OutputKeys}}
RunOutputs == Objects \cup Arrays \cup Leaves
ReturnValues ==
  {NoReturnValue,
   Template(<<"result">>), Template(<<"result", DOT, "a">>),
   Template(<<SPACE, "result", SPACE>>), Template(<<"missing">>),
   Template(<<"result", DOT, "missing">>), Template(<<"result", DOT, "0">>),
   Template(<<"result", DOT, "length">>), Template(<<"constructor">>),
   Template(<<"0">>), Template(<<"length">>),
   <<"result">>, <<"see", SPACE, OPEN, "result", CLOSE>>}

NoModal ==
  [open |-> FALSE, raw |-> Undefined, output |-> Undefined,
   returnValue |-> NoReturnValue, rendered |-> FALSE,
   processedOutput |-> Undefined, passes |-> 0]

\* The modal is rendered for its run: processedOutput is computed.
RunOutputModal ==
  /\ modal.open /\ ~modal.rendered
  /\ modal' = [modal EXCEPT !.rendered = TRUE,
                            !.processedOutput =
                              ProcessedOutput(modal.returnValue, modal.output)]
  /\ UNCHANGED <<queueVars, dataVars, apiKeys, now, requests>>

\* The extracted value is what is stored as run.output (as the executor does since
\* its fix), and the modal is shown for the stored run.
StoreExtracted ==
  /\ modal.rendered /\ modal.passes < MaxPasses
  /\ modal' = [modal EXCEPT !.output = modal.processedOutput,
                            !.rendered = FALSE,
                            !.processedOutput = Undefined,
                            !.passes = @ + 1]
  /\ UNCHANGED <<queueVars, dataVars, apiKeys, now, requests>>

----------------------------------------------------------------------------
\* API keys and the external API: key creation and revocation by a signed-in
\* user, validateApiKey, checkPermission and the /api/external route handlers.

MaxKeys == 2             \* API keys created
MaxNow == 2              \* clock values: 0..MaxNow
MaxRequests == 1         \* requests made to the external API
MaxWorkflows == 2        \* workflows imported

Users == {"alice", "bob"}
API_KEY_PREFIX == "b0t_"

\* generateApiKey: the n-th key created, and hashApiKey.
RawKey(n) == <<API_KEY_PREFIX, n>>
hashApiKey(key) == <<"sha256", key>>

\* Stored permission values: the booleans, and a value that is merely truthy.
PermissionValues == {"true", "false", "'yes'"}
Permissions == {<<"workflows", "create">>, <<"workflows", "read">>,
                <<"workflows", "update">>, <<"workflows", "delete">>,
                <<"workflows", "execute">>, <<"modules", "read">>,
                <<"credentials", "read">>, <<"credentials", "create">>,
                <<"credentials", "delete">>, <<"clients", "read">>,
                <<"clients", "create">>, <<"clients", "update">>}
Resources == {"workflows", "modules", "credentials", "clients"}
ActionsOf(resource) == {pa[2] : pa \in {q \in Permissions : q[1] = resource}}

defaultPermissions ==
  [resource \in Resources |->
     [action \in ActionsOf(resource) |->
        IF action = "read" THEN "true" ELSE "false"]]

\* The permissions objects of the request bodies of the model: nothing given,
\* execute and delete granted properly, and grants that are not the boolean true.
NoGrants == [resource \in Resources |-> <<>>]
PermissionInputs ==
  {NoGrants,
   [NoGrants EXCEPT !["workflows"] = ("execute" :> "true") @@ ("delete" :> "true")],
   [NoGrants EXCEPT !["workflows"] = ("execute" :> "'yes'") @@ ("read" :> "false"),
                    !["credentials"] = ("delete" :> "'yes'")]}

\* A permissions object granting every action of every resource.
AllGrants ==
  [resource \in Resources |-> [action \in ActionsOf(resource) |-> "true"]]

\* { ...defaultPermissions.r, ...permissions.r } for each resource r
mergedPermissions(permissions) ==
  [resource \in Resources |-> permissions[resource] @@ defaultPermissions[resource]]

\* checkPermission: the stored permission is exactly true.
checkPermission(permissions, resource, action) ==
  IF resource \notin DOMAIN permissions THEN FALSE
  ELSE action \in DOMAIN permissions[resource]
         /\ permissions[resource][action] = "true"

KeyIds == 1..Len(apiKeys)

\* POST /api/api-keys by a signed-in user: a new key row. expiresAt 0 is null.
CreateApiKey(user, permissions, expiresAt) ==
  /\ Len(apiKeys) < MaxKeys
  /\ apiKeys' = Append(apiKeys,
                  [id |-> Len(apiKeys) + 1,
                   keyHash |-> hashApiKey(RawKey(Len(apiKeys) + 1)),
                   userId |-> user,
                   permissions |-> mergedPermissions(permissions),
                   expiresAt |-> expiresAt, isActive |-> TRUE,
                   revokedAt |-> 0, revoked |-> FALSE, lastUsedAt |-> 0])
  /\ UNCHANGED <<queueVars, dataVars, modal, now, requests>>

\* DELETE /api/api-keys/[id] (and DELETE /api/api-keys?id=) by a signed-in user:
\* the user's own key is marked inactive and revoked; any other id is answered 404.
\* revoked says that revokedAt is not null.
RevokeApiKey(user, id) ==
  /\ id \in KeyIds
  /\ apiKeys' = IF apiKeys[id].userId = user
                THEN [apiKeys EXCEPT ![id].isActive = FALSE,
                                     ![id].revokedAt = now,
                                     ![id].revoked = TRUE]
                ELSE apiKeys
  /\ UNCHANGED <<queueVars, dataVars, modal, now, requests>>

\* The Authorization headers of the model: none, a bearer token that is not an API
\* key, and the raw keys 1..MaxKeys+1, the last of which was never issued.
NoHeader == [scheme |-> "", token |-> <<"", 0>>]
Headers ==
  {NoHeader, [scheme |-> "Bearer", token |-> <<"jwt_", 1>>]}
    \cup {[scheme |-> "Bearer", token |-> RawKey(n)] : n \in 1..(MaxKeys + 1)}

\* validateApiKey with the key looked up by its hash alone.
KeyRows_hashOnly(keyHash) == {id \in KeyIds : apiKeys[id].keyHash = keyHash}

\* The rows the query of validateApiKey selects.
KeyRows(keyHash) ==
  {id \in KeyIds : /\ apiKeys[id].keyHash = keyHash
                   /\ apiKeys[id].isActive
                   /\ ~apiKeys[id].revoked}

\* validateApiKey: an error with status 401, or the key row found.
validateApiKey(header) ==
  IF ~(header.scheme = "Bearer" /\ header.token[1] = API_KEY_PREFIX)
    THEN [error |-> "Missing or invalid API key", status |-> 401, id |-> 0]
  ELSE IF KeyRows(hashApiKey(header.token)) = {}
    THEN [error |-> "Invalid or revoked API key", status |-> 401, id |-> 0]
  ELSE LET id == CHOOSE k \in KeyRows(hashApiKey(header.token)) : TRUE IN
       IF apiKeys[id].expiresAt # 0 /\ apiKeys[id].expiresAt < now
         THEN [error |-> "API key has expired", status |-> 401, id |-> 0]
       ELSE [error |-> "", status |-> 200, id |-> id]

\* The request middleware (src/middleware.ts), run for every path but static
\* files. A pathname is the sequence of its segments; "/" is the empty sequence.
publicRoutes ==
  {<<"auth", "signin">>, <<"auth", "error">>, <<"api", "auth">>,
   <<"api", "workflows", "import-test">>, <<"api", "workflows", "execute-test">>}

StartsWith(pathname, route) ==
  Len(route) <= Len(pathname) /\ SubSeq(pathname, 1, Len(route)) = route

\* The middleware: "redirect" to /auth/signin, or "next" to the handler.
middleware(pathname, isAuthenticated) ==
  LET isPublicRoute == \E route \in publicRoutes : StartsWith(pathname, route)
      isRootPath == pathname = <<>> IN
  IF ~isPublicRoute /\ ~isRootPath /\ ~isAuthenticated THEN "redirect" ELSE "next"

REDIRECT == 307

\* The handlers of /api/external, health apart: the permission each checks, the
\* tables it goes on to use, whether it first looks the workflow of the path up,
\* the ways its own work can end, its status on success and the action it names
\* in the audit log.
Routes ==
  {[name |-> "GET /workflows",
    path |-> <<"api", "external", "workflows">>,
    resource |-> "workflows", action |-> "read",
    uses |-> {"workflows"}, byId |-> FALSE, outcomes |-> {"ok", "throws"},
    ok |-> 200, audit |-> "workflows.list"],
   [name |-> "POST /workflows",
    path |-> <<"api", "external", "workflows">>,
    resource |-> "workflows", action |-> "create",
    uses |-> {"workflows"}, byId |-> FALSE,
    outcomes |-> {"ok", "invalid", "throws"},
    ok |-> 201, audit |-> "workflows.create"],
   [name |-> "GET /workflows/[id]",
    path |-> <<"api", "external", "workflows", "[id]">>,
    resource |-> "workflows", action |-> "read",
    uses |-> {"workflows"}, byId |-> TRUE, outcomes |-> {"ok", "throws"},
    ok |-> 200, audit |-> "workflows.get"],
   [name |-> "PUT /workflows/[id]",
    path |-> <<"api", "external", "workflows", "[id]">>,
    resource |-> "workflows", action |-> "update",
    uses |-> {"workflows"}, byId |-> TRUE,
    outcomes |-> {"ok", "invalid", "throws"},
    ok |-> 200, audit |-> "workflows.update"],
   [name |-> "DELETE /workflows/[id]",
    path |-> <<"api", "external", "workflows", "[id]">>,
    resource |-> "workflows", action |-> "delete",
    uses |-> {"workflows"}, byId |-> TRUE, outcomes |-> {"ok", "throws"},
    ok |-> 200, audit |-> "workflows.delete"],
   [name |-> "POST /workflows/[id]/execute",
    path |-> <<"api", "external", "workflows", "[id]", "execute">>,
    resource |-> "workflows",
    action |-> "execute", uses |-> {"workflows", "runs"}, byId |-> TRUE,
    outcomes |-> {"ok", "failed", "throws"},
    ok |-> 200, audit |-> "workflows.execute"],
   [name |-> "GET /activity",
    path |-> <<"api", "external", "activity">>,
    resource |-> "workflows", action |-> "read",
    uses |-> {"runs"}, byId |-> FALSE, outcomes |-> {"ok", "throws"},
    ok |-> 200, audit |-> "activity.list"],
   [name |-> "GET /activity/[id]",
    path |-> <<"api", "external", "activity", "[id]">>,
    resource |-> "workflows", action |-> "read",
    uses |-> {"runs"}, byId |-> FALSE,
    outcomes |-> {"ok", "notFound", "throws"},
    ok |-> 200, audit |-> "activity.get"],
   [name |-> "GET /modules",
    path |-> <<"api", "external", "modules">>,
    resource |-> "modules", action |-> "read",
    uses |-> {"modules"}, byId |-> FALSE, outcomes |-> {"ok", "throws"},
    ok |-> 200, audit |-> "modules.list"],
   [name |-> "GET /credentials",
    path |-> <<"api", "external", "credentials">>,
    resource |-> "credentials", action |-> "read",
    uses |-> {"credentials"}, byId |-> FALSE, outcomes |-> {"ok", "throws"},
    ok |-> 200, audit |-> "credentials.list"],
   [name |-> "POST /credentials",
    path |-> <<"api", "external", "credentials">>,
    resource |-> "credentials", action |-> "create",
    uses |-> {"credentials"}, byId |-> FALSE,
    outcomes |-> {"ok", "invalid", "throws"},
    ok |-> 201, audit |-> "credentials.create"],
   [name |-> "DELETE /credentials/[id]",
    path |-> <<"api", "external", "credentials", "[id]">>,
    resource |-> "credentials",
    action |-> "delete", uses |-> {"credentials"}, byId |-> FALSE,
    outcomes |-> {"ok", "throws"},
    ok |-> 200, audit |-> "credentials.delete"]}

\* The ways the work of a handler can end: done, the body fails validation, the
\* run asked for does not exist, the workflow executed fails, an exception.
Outcomes == {"ok", "invalid", "notFound", "failed", "throws"}

\* The id given to a new workflow row (nanoid, randomUUID): one no row has.
NewWorkflowId ==
  IF workflowsTable = {} THEN 1
  ELSE 1 + CHOOSE n \in {w.id : w \in workflowsTable} :
             \A w \in workflowsTable : w.id <= n

\* POST /api/workflows/import by a signed-in user: a new row of the user's, with
\* no organization (0 is null).
ImportWorkflow(user) ==
  /\ Cardinality(workflowsTable) < MaxWorkflows
  /\ workflowsTable' = workflowsTable \cup
       {[id |-> NewWorkflowId, userId |-> user, organizationId |-> 0]}
  /\ UNCHANGED <<queueVars, frontVars, auditLog, usage, trackers>>

\* The rows the handlers that take a workflow id select: by id and owner.
OwnWorkflow(id, userId) ==
  {w \in workflowsTable : w.id = id /\ w.userId = userId}

\* The rows of the list GET /api/external/workflows returns to a key of userId.
ListedWorkflows(userId) ==
  {w \in workflowsTable : w.organizationId = 0}

\* The status a handler answers with once the key and its permission are
\* accepted.
HandlerStatus(route, userId, id, outcome) ==
  IF outcome = "throws" THEN 500
  ELSE IF route.name = "POST /workflows" /\ outcome = "invalid" THEN 400
  ELSE IF route.byId /\ OwnWorkflow(id, userId) = {} THEN 404
  ELSE IF outcome = "notFound" THEN 404
  ELSE IF outcome = "invalid" THEN 400
  ELSE IF outcome = "failed" THEN 500
  ELSE route.ok

\* The handler reaches its logAuditEvent call: on success, and in the execute
\* route also when the workflow it executed failed.
Audited(route, status, outcome) ==
  status = route.ok \/ (outcome = "failed" /\ status = 500)

\* The workflows a response carries.
ResponseWorkflows(route, userId, id, status) ==
  IF status # route.ok THEN {}
  ELSE IF route.name = "GET /workflows" THEN ListedWorkflows(userId)
  ELSE IF route.name = "GET /workflows/[id]" THEN OwnWorkflow(id, userId)
  ELSE IF route.name = "POST /workflows"
    THEN {[id |-> NewWorkflowId, userId |-> userId, organizationId |-> 0]}
  ELSE {}

\* A request to a route, with or without a session: the middleware, then in the
\* handler validateApiKey, then checkPermission, then the route's own work for
\* path id and the given outcome. A validated key has the update of
\* its lastUsedAt issued without being awaited: lastUsed says whether it has
\* landed.
ExternalRequest(route, header, session, id, outcome) ==
  /\ Len(requests) < MaxRequests
  /\ outcome \in route.outcomes
  /\ LET auth == validateApiKey(header)
         entry == [route |-> route.name, header |-> header, session |-> session,
                   keyId |-> 0, at |-> now, status |-> 0, used |-> {},
                   lastUsed |-> "none", id |-> id, outcome |-> outcome,
                   workflows |-> {}, body |-> ""] IN
     IF middleware(route.path, session) = "redirect"
       THEN /\ requests' = Append(requests, [entry EXCEPT !.status = REDIRECT])
            /\ UNCHANGED <<workflowsTable, auditLog>>
     ELSE IF auth.error # ""
       THEN /\ requests' = Append(requests, [entry EXCEPT !.status = auth.status])
            /\ UNCHANGED <<workflowsTable, auditLog>>
     ELSE IF ~checkPermission(apiKeys[auth.id].permissions,
                              route.resource, route.action)
       THEN /\ requests' = Append(requests, [entry EXCEPT !.status = 403,
                                                          !.keyId = auth.id,
                                                          !.lastUsed = "pending"])
            /\ UNCHANGED <<workflowsTable, auditLog>>
     ELSE LET userId == apiKeys[auth.id].userId
              status == HandlerStatus(route, userId, id, outcome)
              found == ResponseWorkflows(route, userId, id, status) IN
          /\ requests' = Append(requests,
               [entry EXCEPT !.status = status, !.keyId = auth.id,
                             !.lastUsed = "pending",
                             !.used = IF status = 400 /\ ~route.byId THEN {}
                                      ELSE route.uses,
                             !.workflows = found])
          /\ workflowsTable' =
               IF status # route.ok THEN workflowsTable
               ELSE IF route.name = "POST /workflows"
                 THEN workflowsTable \cup found
               ELSE IF route.name = "DELETE /workflows/[id]"
                 THEN workflowsTable \ OwnWorkflow(id, userId)
               ELSE workflowsTable
          /\ auditLog' =
               IF Audited(route, status, outcome)
               THEN Append(auditLog,
                      [apiKeyId |-> auth.id, userId |-> userId,
                       action |-> route.audit,
                       resource |-> IF route.byId THEN id ELSE 0,
                       responseStatus |-> status,
                       request |-> Len(requests) + 1])
               ELSE auditLog
  /\ UNCHANGED <<queueVars, modal, apiKeys, now, usage, trackers>>

\* GET /api/external/health: the middleware, then the handler, which checks
\* nothing and answers status 'ok'.
HealthRequest(header, session) ==
  /\ Len(requests) < MaxRequests
  /\ LET entry == [route |-> "GET /health", header |-> header, session |-> session,
                   keyId |-> 0, at |-> now, status |-> 0, used |-> {},
                   lastUsed |-> "none", id |-> 0, outcome |-> "ok",
                   workflows |-> {}, body |-> ""] IN
     requests' = Append(requests,
       IF middleware(<<"api", "external", "health">>, session) = "redirect"
       THEN [entry EXCEPT !.status = REDIRECT]
       ELSE [entry EXCEPT !.status = 200, !.body = "ok"])
  /\ UNCHANGED <<queueVars, dataVars, modal, apiKeys, now>>

\* The row after the update of lastUsedAt issued by request r.
LastUsedRow(r) ==
  [apiKeys[requests[r].keyId] EXCEPT !.lastUsedAt = requests[r].at]

\* The update of lastUsedAt issued by request r lands.
UpdateLastUsed(r) ==
  /\ r \in DOMAIN requests
  /\ requests[r].lastUsed = "pending"
  /\ apiKeys' = [apiKeys EXCEPT ![requests[r].keyId] = LastUsedRow(r)]
  /\ requests' = [requests EXCEPT ![r].lastUsed = "done"]
  /\ UNCHANGED <<queueVars, dataVars, modal, now>>

\* Time passes.
ClockTick ==
  /\ now < MaxNow
  /\ now' = now + 1
  /\ UNCHANGED <<queueVars, dataVars, modal, apiKeys, requests>>

----------------------------------------------------------------------------
\* The deployment as a whole: REDIS_URL set or not, every outcome of the start-up
\* call, trigger requests of both kinds, the worker and the clock.

InitQueue ==
  /\ redisUrl \in BOOLEAN
  /\ queues = {}
  /\ workers = {}
  /\ initResult = "none"
  /\ initOptions = NoOptions
  /\ workerOpts = NoWorkerOptions
  /\ jobs = <<>>
  /\ calls = <<>>
  /\ limiter = [count |-> 0, ttl |-> 0]
  /\ startsLog = [i \in 1..WindowTicks |-> 0]

\* No run is shown and no API key exists.
InitFront ==
  /\ modal = NoModal
  /\ apiKeys = <<>>
  /\ now = 0
  /\ requests = <<>>

InitData ==
  /\ workflowsTable = {}
  /\ auditLog = <<>>
  /\ usage = <<>>
  /\ trackers = <<>>

Init == InitQueue /\ InitFront /\ InitData

Next ==
  \/ \E options \in InitOptionSets, outcome \in InitOutcomes :
       InitializeWorkflowQueue(options, outcome)
  \/ \E w \in Workflows, options \in {NoJobOptions} :
       QueueWorkflowExecution(w, "manual", options)
  \/ \E w \in Workflows : ExecuteWorkflowDirect(w, "manual")
  \/ \E c \in CallIds, raises \in BOOLEAN : CallBegin(c, raises)
  \/ \E c \in CallIds, ok \in BOOLEAN : CallStep(c, ok)
  \/ \E j \in JobIds : JobStart(j, FALSE)
  \/ \E j \in JobIds, raises \in BOOLEAN, failAt \in 0..MaxSteps :
       WorkerRun(j, raises, failAt)
  \/ \E j \in JobIds : JobRetry(j)
  \/ Tick(FALSE)

Spec == Init /\ [][Next]_vars

----------------------------------------------------------------------------
\* The deployment without a broker: REDIS_URL is not set. Every trigger request
\* runs in the caller; there is no queue and no worker.

InitNoBroker == Init /\ redisUrl = FALSE

NextNoBroker ==
  \/ \E options \in InitOptionSets, outcome \in InitOutcomes :
       InitializeWorkflowQueue(options, outcome)
  \/ \E w \in Workflows, t \in TriggerTypes, options \in JobOptionSets :
       QueueWorkflowExecution(w, t, options)
  \/ \E w \in Workflows, t \in TriggerTypes : ExecuteWorkflowDirect(w, t)
  \/ \E c \in CallIds, raises \in BOOLEAN : CallBegin(c, raises)
  \/ \E c \in CallIds, ok \in BOOLEAN : CallStep(c, ok)

SpecNoBroker == InitNoBroker /\ [][NextNoBroker]_vars

----------------------------------------------------------------------------
\* The broker-backed deployment seen through its clock: REDIS_URL is set, the
\* start-up call succeeds, every trigger request is queued, and every start of a
\* job is entered in startsLog. The workflows have one step, which fails or not.

MaxLimiterRate == 2      \* largest options.maxJobsPerMinute given to the limiter

LimiterOptionSets ==
  {[concurrency |-> c, maxJobsPerMinute |-> m] :
     c \in 1..MaxConcurrencyOpt, m \in 1..MaxLimiterRate}

InitLimiter == Init /\ redisUrl = TRUE

NextLimiter ==
  \/ \E options \in LimiterOptionSets : InitializeWorkflowQueue(options, "ok")
  \/ \E options \in JobOptionSets : QueueWorkflowExecution(1, "manual", options)
  \/ \E j \in JobIds : JobStart(j, TRUE)
  \/ \E j \in JobIds, failAt \in 0..1 : WorkerRun(j, FALSE, failAt)
  \/ \E j \in JobIds : JobRetry(j)
  \/ Tick(TRUE)

SpecLimiter == InitLimiter /\ [][NextLimiter]_vars

\* The worker keeps taking jobs, attempts end, retries are scheduled and time
\* passes.
FairSpecLimiter ==
  /\ SpecLimiter
  /\ WF_vars(Tick(TRUE))
  /\ \A j \in 1..MaxCalls :
       /\ WF_vars(j \in JobIds /\ JobStart(j, TRUE))
       /\ WF_vars(j \in JobIds /\ \E failAt \in 0..1 : WorkerRun(j, FALSE, failAt))
       /\ WF_vars(j \in JobIds /\ JobRetry(j))

----------------------------------------------------------------------------
\* The worker pool seen step by step: REDIS_URL is set, the start-up call succeeds
\* with a pool of MaxWorkers workers, and the attempts of the active jobs
\* interleave at their module calls.

MaxWorkers == 2          \* options.concurrency of the worker pool

WorkerPoolOptionSets == {[concurrency |-> MaxWorkers, maxJobsPerMinute |-> 0]}

Last(seq) == seq[Len(seq)]

\* The job's attempt is inside executeWorkflow.
Running(job) ==
  job.state = "active" /\ job.runs # <<>> /\ Last(job.runs).status = "running"

\* WorkerContext with one context instance for the whole pool: the steps of the
\* attempts under way all write to it.
WorkerContext_shared(j) ==
  LET others == {i \in JobIds \ {j} : Running(jobs[i])} IN
  IF others = {} THEN Last(jobs[j].runs).context
  ELSE Last(jobs[CHOOSE i \in others : TRUE].runs).context @@ Last(jobs[j].runs).context

\* The Variable Context the attempt of job j resolves against and writes to: the
\* one its own run created.
WorkerContext(j) == Last(jobs[j].runs).context

\* WorkerBegin with one Run per job: a retry starts the job's Run over.
WorkerBegin_reuse(j) ==
  /\ jobs[j].state = "active"
  /\ ~Running(jobs[j])
  /\ jobs' = [jobs EXCEPT ![j].runs =
                IF @ = <<>> THEN <<AttemptRun(jobs[j])>>
                ELSE [@ EXCEPT ![Len(@)] = AttemptRun(jobs[j])]]
  /\ UNCHANGED <<frontVars, dataVars, redisUrl, queues, workers, initResult, initOptions, workerOpts,
                 calls, limiter, startsLog>>

\* The processor calls executeWorkflow, which creates the attempt's Run.
WorkerBegin(j) ==
  /\ jobs[j].state = "active"
  /\ ~Running(jobs[j])
  /\ jobs' = [jobs EXCEPT ![j].runs = Append(@, AttemptRun(jobs[j]))]
  /\ UNCHANGED <<frontVars, dataVars, redisUrl, queues, workers, initResult, initOptions, workerOpts,
                 calls, limiter, startsLog>>

\* executeWorkflow runs the attempt's next step; when the run ends the processor
\* returns or throws and the job leaves the active state.
WorkerStep(j, ok) ==
  /\ Running(jobs[j])
  /\ LET n == Len(jobs[j].runs)
         run == ExecStep([jobs[j].runs[n] EXCEPT !.context = WorkerContext(j)], ok)
         job == [jobs[j] EXCEPT !.runs[n] = run] IN
     jobs' = [jobs EXCEPT ![j] =
                IF run.status = "running" THEN job
                ELSE IF Processor(RunResult(run)) = "throw" THEN MoveToFailed(job)
                ELSE MoveToCompleted(job)]
  /\ UNCHANGED <<frontVars, dataVars, redisUrl, queues, workers, initResult, initOptions, workerOpts,
                 calls, limiter, startsLog>>

InitWorkers == Init /\ redisUrl = TRUE

NextWorkers ==
  \/ \E options \in WorkerPoolOptionSets : InitializeWorkflowQueue(options, "ok")
  \/ \E w \in Workflows : QueueWorkflowExecution(w, "manual", NoJobOptions)
  \/ \E j \in JobIds : JobStart(j, FALSE)
  \/ \E j \in JobIds : WorkerBegin(j)
  \/ \E j \in JobIds, ok \in BOOLEAN : WorkerStep(j, ok)
  \/ \E j \in JobIds : JobRetry(j)
  \/ Tick(FALSE)

SpecWorkers == InitWorkers /\ [][NextWorkers]_vars

----------------------------------------------------------------------------
\* The display of run outputs: a modal opened for any run output and returnValue
\* of the model.

InitExtractor ==
  /\ InitQueue /\ redisUrl = FALSE
  /\ apiKeys = <<>> /\ now = 0 /\ requests = <<>>
  /\ InitData
  /\ \E output \in RunOutputs, returnValue \in ReturnValues :
       modal = [NoModal EXCEPT !.open = TRUE, !.raw = output, !.output = output,
                               !.returnValue = returnValue]

NextExtractor ==
  \/ RunOutputModal
  \/ StoreExtracted

SpecExtractor == InitExtractor /\ [][NextExtractor]_vars

----------------------------------------------------------------------------
\* The external API: keys are created and revoked, time passes, and requests
\* arrive with any header at any route.

InitApi == InitQueue /\ redisUrl = FALSE /\ InitFront /\ InitData

NextApi ==
  \/ \E permissions \in PermissionInputs, expiresAt \in 0..1 :
       CreateApiKey("alice", permissions, expiresAt)
  \/ \E user \in Users, id \in 1..MaxKeys : RevokeApiKey(user, id)
  \/ \E route \in Routes, header \in Headers, session \in BOOLEAN :
       ExternalRequest(route, header, session, 1, "ok")
  \/ \E r \in 1..MaxRequests : UpdateLastUsed(r)
  \/ ClockTick

SpecApi == InitApi /\ [][NextApi]_vars

----------------------------------------------------------------------------
\* Twitter usage tracking (lib/usage-tracker.ts): trackTwitterUsage on the
\* server reads the usage row of the type, counts the call in the four windows
\* and saves the row back; the calls run concurrently, each one suspended at its
\* two database awaits.

MaxTrackers == 3         \* trackTwitterUsage calls made
MaxWaits == 2            \* times the clock is advanced between calls

UsageTypes == {"post", "read"}
UsageKey(type) == IF type = "post" THEN "twitter_post_usage" ELSE "twitter_read_usage"

Windows == {"window15min", "window1hr", "window24hr", "window30days"}

\* The length of a window.  The clock of this part counts whole seconds, the
\* source's milliseconds divided by 1000: 30 * 24 * 60 * 60 * 1000 is beyond the
\* integers TLC computes with, and the comparisons are the same at either scale.
WindowLength(w) ==
  CASE w = "window15min"  -> 15 * 60
    [] w = "window1hr"    -> 60 * 60
    [] w = "window24hr"   -> 24 * 60 * 60
    [] w = "window30days" -> 30 * 24 * 60 * 60

\* The rows of the settings table with the key, in table order.
RowsWithKey(key) == SelectSeq(usage, LAMBDA row : row.key = key)

FreshWindow(w, at) == [count |-> 0, resetAt |-> at + WindowLength(w)]

\* The usage object a call builds from what it read: the stored value or a
\* fresh one, expired windows reset, every window incremented.  (The value is
\* stored as JSON text of numbers, which parses back to the same object.)
ReadUsage(existingRows, at) ==
  IF existingRows # <<>> THEN Head(existingRows).value
  ELSE [w \in Windows |-> FreshWindow(w, at)]

ExpiredWindows(value, at) == {w \in Windows : value[w].resetAt < at}

Incremented(value, at) ==
  [w \in Windows |->
     LET win == IF w \in ExpiredWindows(value, at) THEN FreshWindow(w, at) ELSE value[w]
     IN  [win EXCEPT !.count = @ + 1]]

\* trackTwitterUsage(type), server side: the call starts and reaches the select.
TrackTwitterUsage(type) ==
  /\ Len(trackers) < MaxTrackers
  /\ trackers' = Append(trackers,
       [type |-> type, pc |-> "select", existing |-> FALSE,
        usage |-> [w \in Windows |-> FreshWindow(w, 0)],
        reset |-> {}, dbFailed |-> FALSE, outcome |-> "none"])
  /\ UNCHANGED <<queueVars, frontVars, workflowsTable, auditLog, usage>>

\* The select returns (or the database fails and the catch logs the error);
\* the code then runs to the await of the update or insert.
Select(t, dbFails) ==
  /\ t \in 1..Len(trackers)
  /\ trackers[t].pc = "select"
  /\ LET existingRows == RowsWithKey(UsageKey(trackers[t].type))
         read == ReadUsage(existingRows, now)
     IN  trackers' = [trackers EXCEPT ![t] =
           IF dbFails
           THEN [@ EXCEPT !.pc = "returned", !.dbFailed = TRUE, !.outcome = "logged"]
           ELSE [@ EXCEPT !.pc = "save",
                          !.existing = existingRows # <<>>,
                          !.reset = ExpiredWindows(read, now),
                          !.usage = Incremented(read, now)]]
  /\ UNCHANGED <<queueVars, frontVars, workflowsTable, auditLog, usage>>

\* The update or insert runs and the call returns.  An insert that finds a row
\* with the key already there either violates the key's uniqueness, which the
\* catch logs, or adds a second row: the table definition decides which.
Save(t, dbFails, unique) ==
  /\ t \in 1..Len(trackers)
  /\ trackers[t].pc = "save"
  /\ LET key == UsageKey(trackers[t].type)
         conflict == ~trackers[t].existing /\ RowsWithKey(key) # <<>> /\ unique
     IN  /\ usage' =
              IF dbFails \/ conflict THEN usage
              ELSE IF trackers[t].existing
              THEN [i \in 1..Len(usage) |->
                      IF usage[i].key = key
                      THEN [usage[i] EXCEPT !.value = trackers[t].usage]
                      ELSE usage[i]]
              ELSE Append(usage, [key |-> key, value |-> trackers[t].usage])
         /\ trackers' = [trackers EXCEPT ![t] =
              [@ EXCEPT !.pc = "returned",
                        !.dbFailed = dbFails,
                        !.outcome = IF dbFails \/ conflict THEN "logged" ELSE "tracked"]]
  /\ UNCHANGED <<queueVars, frontVars, workflowsTable, auditLog>>

\* Time passes between the steps: the length of one of the two shortest
\* windows and a second more.
WaitSeconds == {WindowLength(w) + 1 : w \in {"window15min", "window1hr"}}
Wait(s) ==
  /\ now + s <= MaxWaits * (WindowLength("window1hr") + 1)
  /\ now' = now + s
  /\ UNCHANGED <<queueVars, dataVars, modal, apiKeys, requests>>

InitUsage == InitQueue /\ redisUrl = FALSE /\ InitFront /\ InitData

NextUsage ==
  \/ \E type \in UsageTypes : TrackTwitterUsage(type)
  \/ \E t \in 1..MaxTrackers, dbFails \in BOOLEAN : Select(t, dbFails)
  \/ \E t \in 1..MaxTrackers, dbFails \in BOOLEAN, unique \in BOOLEAN : Save(t, dbFails, unique)
  \/ \E s \in WaitSeconds : Wait(s)

SpecUsage == InitUsage /\ [][NextUsage]_vars

----------------------------------------------------------------------------
\* Start-up and enqueueing in any order: REDIS_URL is set, initializeWorkflowQueue
\* runs once with any of its outcomes, callers enqueue before or after it, and the
\* worker, where there is one, takes the jobs.

InitStartup == Init /\ redisUrl = TRUE

NextStartup ==
  \/ \E outcome \in InitOutcomes : InitializeWorkflowQueue(NoOptions, outcome)
  \/ QueueWorkflowExecution(1, "manual", NoJobOptions)
  \/ \E j \in JobIds : JobStart(j, FALSE)
  \/ \E j \in JobIds, failAt \in 0..1 : WorkerRun(j, FALSE, failAt)
  \/ \E j \in JobIds : JobRetry(j)
  \/ Tick(FALSE)

SpecStartup == InitStartup /\ [][NextStartup]_vars

\* The worker keeps taking jobs, attempts end, retries are scheduled and time
\* passes; nothing obliges the application to enqueue or to initialize.
FairSpecStartup ==
  /\ SpecStartup
  /\ WF_vars(Tick(FALSE))
  /\ \A j \in 1..MaxCalls :
       /\ WF_vars(j \in JobIds /\ JobStart(j, FALSE))
       /\ WF_vars(j \in JobIds /\ \E failAt \in 0..1 : WorkerRun(j, FALSE, failAt))
       /\ WF_vars(j \in JobIds /\ JobRetry(j))

----------------------------------------------------------------------------
\* Enqueueing with options: the queue is initialized, callers pass any of the
\* option sets, priority 0 among them, and the worker starts the jobs as their
\* delays run out.

InitJobOptions == Init /\ redisUrl = TRUE

NextJobOptions ==
  \/ \E options \in InitOptionSets : InitializeWorkflowQueue(options, "ok")
  \/ \E w \in Workflows, t \in TriggerTypes, options \in SuppliedJobOptionSets :
       QueueWorkflowExecution(w, t, options)
  \/ \E j \in JobIds : JobStart(j, FALSE)
  \/ Tick(FALSE)

SpecJobOptions == InitJobOptions /\ [][NextJobOptions]_vars

----------------------------------------------------------------------------
\* The external API and its data: users import workflows and create keys, and
\* requests arrive at any route, health included, with any header, with or
\* without a session, for any workflow id and with any outcome of the handler.

InitExternal == InitApi

NextExternal ==
  \/ \E user \in Users : ImportWorkflow(user)
  \/ \E user \in Users, permissions \in {NoGrants, AllGrants} :
       CreateApiKey(user, permissions, 0)
  \/ \E route \in Routes, header \in Headers, session \in BOOLEAN,
        id \in 1..MaxWorkflows, outcome \in Outcomes :
       ExternalRequest(route, header, session, id, outcome)
  \/ \E header \in Headers, session \in BOOLEAN : HealthRequest(header, session)

SpecExternal == InitExternal /\ [][NextExternal]_vars

----------------------------------------------------------------------------
\* Properties.

CallRuns == {calls[c].run[1] : c \in {d \in CallIds : calls[d].run # <<>>}}
JobRuns == UNION {{jobs[j].runs[i] : i \in 1..Len(jobs[j].runs)} : j \in JobIds}
AllRuns == CallRuns \cup JobRuns

Terminal(run) == run.status \in {"success", "error"}
Finished(job) == job.state = "completed" \/ TerminallyFailed(job)
QUEUE_NOT_INITIALIZED == "Workflow queue not initialized"
IsEnqueue(call) == call.op = "queueWorkflowExecution"

\* C1: in every Run, when the module call of step sk fails the Run has
\* status=error and errorStep=sk, sk is the last step that was invoked, and the
\* steps invoked are exactly s1..sk in order: none of sk+1..sn is ever executed.
C1_StepFailureAborts ==
  \A r \in AllRuns :
    \A k \in 1..Len(r.outcomes) :
      r.outcomes[k] = FALSE =>
        /\ r.status = "error"
        /\ r.errorStep = r.executed[k]
        /\ Len(r.executed) = k
        /\ \A i \in 1..k : r.executed[i] = i

\* A Run whose first step failed although its workflow has further steps.
C1_Witness ==
  \E r \in AllRuns :
    /\ r.status = "error"
    /\ r.errorStep < NumSteps(r.workflowId)
    /\ r.outcomes[r.errorStep] = FALSE

\* C2: at most N jobs are active at any time, N being the concurrency the pool
\* was asked for (the option, or the default of 10 when none is given).
C2_ConcurrencyBound == Cardinality(ActiveJobs) <= Concurrency(initOptions)

\* The bound is what holds a job back: the pool is full, and a second job waits
\* with no delay left and the limiter open.
C2_Witness ==
  /\ Cardinality(ActiveJobs) = Concurrency(initOptions)
  /\ LimiterAdmits
  /\ \E j \in JobIds : jobs[j].state = "queued" /\ jobs[j].delay = 0

\* C3: a job that has failed terminally was queued again 3 times, with
\* delays of 10 s, 20 s and 40 s.
C3_Claim ==
  \A j \in JobIds :
    TerminallyFailed(jobs[j]) =>
      jobs[j].delays = <<backoffDelay, 2 * backoffDelay, 4 * backoffDelay>>

LegalJobMoves ==
  {<<"queued", "active">>, <<"active", "completed">>,
   <<"active", "failed">>, <<"failed", "queued">>}

\* C5: a job changes state only along queued -> active, active -> completed,
\* active -> failed and failed -> queued; a completed job, and a failed job that
\* has made 3 attempts, never changes again; and no job is removed.
C5_JobLifeCycle ==
  [][/\ Len(jobs') >= Len(jobs)
     /\ \A j \in JobIds :
          /\ jobs'[j].state # jobs[j].state =>
               <<jobs[j].state, jobs'[j].state>> \in LegalJobMoves
          /\ jobs[j].state = "completed" => jobs'[j] = jobs[j]
          /\ (jobs[j].state = "failed" /\ jobs[j].attemptsMade >= 3) =>
               jobs'[j] = jobs[j]]_vars

\* A job that has failed for the third time.
C5_Witness ==
  \E j \in JobIds : jobs[j].state = "failed" /\ jobs[j].attemptsMade = 3

\* C6: with REDIS_URL unset there is never a job; a queueWorkflowExecution call
\* that has returned returned {jobId: 'direct-execution', queued: false}, and its
\* Run had then reached success or error; a call that has not returned has a
\* Run that is still running, or none yet.
C6_FallbackRunsInCaller ==
  /\ jobs = <<>>
  /\ \A c \in CallIds :
       IsEnqueue(calls[c]) =>
         /\ calls[c].pc = "returned" =>
              /\ calls[c].result = [jobId |-> "direct-execution", queued |-> FALSE]
              /\ calls[c].run # <<>>
              /\ Terminal(calls[c].run[1])
         /\ calls[c].pc = "executing" =>
              \A i \in 1..Len(calls[c].run) : calls[c].run[i].status = "running"

\* A fallback call that has returned.
C6_Witness ==
  \E c \in CallIds : IsEnqueue(calls[c]) /\ calls[c].pc = "returned"

\* C7: with REDIS_URL unset, a queueWorkflowExecution call and a direct
\* executeWorkflow call for the same workflow and trigger type whose module calls
\* returned the same produce the same Run (status, error step and all); and when
\* the executor raises, the fallback call ends with the executor's own error.
C7_FallbackEquivalence ==
  /\ \A a \in CallIds, b \in CallIds :
       ( /\ IsEnqueue(calls[a])
         /\ calls[b].op = "executeWorkflow"
         /\ calls[a].workflowId = calls[b].workflowId
         /\ calls[a].triggerType = calls[b].triggerType
         /\ calls[a].run # <<>> /\ calls[b].run # <<>>
         /\ calls[a].run[1].outcomes = calls[b].run[1].outcomes )
       => calls[a].run = calls[b].run
  /\ \A a \in CallIds :
       (IsEnqueue(calls[a]) /\ calls[a].pc = "raised") =>
         calls[a].error = "executor" /\ calls[a].run = <<>>

\* A failed run through the fallback next to the same failed run made directly,
\* for a trigger type other than manual.
C7_Witness ==
  \E a \in CallIds, b \in CallIds :
    /\ IsEnqueue(calls[a])
    /\ calls[b].op = "executeWorkflow"
    /\ calls[a].workflowId = calls[b].workflowId
    /\ calls[a].triggerType = "cron" /\ calls[b].triggerType = "cron"
    /\ calls[a].pc = "returned" /\ calls[b].pc = "returned"
    /\ calls[a].run[1].status = "error"
    /\ calls[a].run[1].outcomes = calls[b].run[1].outcomes

\* C8: a queueWorkflowExecution call made while the queue is not
\* available never ends with the queue's error.
C8_Claim ==
  \A c \in CallIds :
    (IsEnqueue(calls[c]) /\ ~calls[c].probe) => calls[c].error # QUEUE_NOT_INITIALIZED

\* C9: a call made when isWorkflowQueueAvailable() is true returns
\* queued=true, and a call made when it is false runs in the caller: it does not
\* end with the queue's error, and returns queued=false.
C9_Claim ==
  \A c \in CallIds :
    IsEnqueue(calls[c]) =>
      /\ calls[c].probe => (calls[c].pc = "returned" /\ calls[c].result.queued)
      /\ ~calls[c].probe =>
           /\ calls[c].error # QUEUE_NOT_INITIALIZED
           /\ calls[c].pc = "returned" => ~calls[c].result.queued

RECURSIVE SumTo(_, _)
SumTo(f, n) == IF n = 0 THEN 0 ELSE f[n] + SumTo(f, n - 1)

\* Job starts in the last 60 s, and in the limiter's current window: the window
\* opened (limiterDuration - ttl) ago.
StartsInLastMinute == SumTo(startsLog, WindowTicks)
StartsInLimiterWindow ==
  SumTo(startsLog, (limiterDuration - limiter.ttl) \div TickMs + 1)

\* A job that only the limiter holds back: it waits with no delay left and a
\* worker is free.
HeldBack(j) ==
  /\ j \in JobIds
  /\ jobs[j].state = "queued" /\ jobs[j].delay = 0
  /\ Cardinality(ActiveJobs) < workerOpts.concurrency
  /\ ~LimiterAdmits

RunIds == {<<j, i>> \in JobIds \X (1..attempts) : i <= Len(jobs[j].runs)}
RunOf(id) == jobs[id[1]].runs[id[2]]
RunOrigin(run) == <<run.workflowId, run.triggerType>>

\* C11: every attempt of a job runs the workflow from its first step: the steps an
\* attempt executes are 1, 2, ... in order, up to the step that fails in that
\* attempt or to the last step, whatever the attempts before it reached.
C11_RetryFromFirstStep ==
  \A id \in RunIds :
    LET run == RunOf(id) IN
    /\ \A m \in 1..Len(run.executed) : run.executed[m] = m
    /\ run.status = "error" => Len(run.executed) = run.errorStep
    /\ run.status = "success" => Len(run.executed) = NumSteps(run.workflowId)
    /\ run.status = "running" => Len(run.executed) < NumSteps(run.workflowId)

\* A job whose first attempt failed at its second step and whose retry has run the
\* first step again.
C11_Witness ==
  \E j \in JobIds :
    /\ Len(jobs[j].runs) >= 2
    /\ jobs[j].runs[1].errorStep = 2
    /\ jobs[j].runs[2].executed # <<>>
    /\ jobs[j].runs[2].executed[1] = 1

\* C15: a Run begins with status running and no step executed; its status changes
\* only from running to success or error; once it is success or error the Run
\* never changes again, and no Run disappears, whatever the executor, the queue or
\* a retry does next.
C15_RunLifeCycle ==
  [][/\ \A id \in RunIds :
          /\ id[1] \in 1..Len(jobs') /\ id[2] <= Len(jobs'[id[1]].runs)
          /\ Terminal(RunOf(id)) => jobs'[id[1]].runs[id[2]] = RunOf(id)
          /\ jobs'[id[1]].runs[id[2]].status \in {"running", "success", "error"}
     /\ \A j \in JobIds :
          Len(jobs'[j].runs) > Len(jobs[j].runs) =>
            /\ Len(jobs'[j].runs) = Len(jobs[j].runs) + 1
            /\ Last(jobs'[j].runs).status = "running"
            /\ Last(jobs'[j].runs).executed = <<>>]_vars

\* A job on its second attempt: the Run of the failed first attempt stands next
\* to the running Run of the retry.
C15_Witness ==
  \E j \in JobIds :
    /\ Len(jobs[j].runs) = 2
    /\ jobs[j].runs[1].status = "error"
    /\ jobs[j].runs[2].status = "running"

\* C16: in every run the steps execute in declaration order; a step is executed
\* only when every step before it has returned successfully; and the context a
\* step resolves its inputs against holds, under its outputAs key, the value each
\* earlier step returned.
C16_StepOrder ==
  \A id \in RunIds :
    LET run == RunOf(id) IN
    /\ Len(run.snapshots) = Len(run.executed)
    /\ \A m \in 1..Len(run.executed) :
         /\ run.executed[m] = m
         /\ \A i \in 1..(m - 1) :
              /\ run.outcomes[i]
              /\ OutputAs[i] \in DOMAIN run.snapshots[m]
              /\ run.snapshots[m][OutputAs[i]].step = i

\* A run that has executed its second step.
C16_Witness ==
  \E id \in RunIds :
    Len(RunOf(id).executed) >= 2 /\ RunOf(id).outcomes[2]

\* C17: every value a run's steps resolve against, and every value in its
\* context, derives from that run's own input: none was written by another run.
C17_ContextIsolation ==
  \A id \in RunIds :
    LET run == RunOf(id) IN
    /\ \A key \in DOMAIN run.context : run.context[key].origin = RunOrigin(run)
    /\ \A m \in 1..Len(run.snapshots) :
         \A key \in DOMAIN run.snapshots[m] :
           run.snapshots[m][key].origin = RunOrigin(run)

\* Two attempts of different workflows under way at once on two workers, one of
\* them between its steps.
C17_Witness ==
  \E a \in JobIds, b \in JobIds :
    /\ Running(jobs[a]) /\ Running(jobs[b])
    /\ jobs[a].workflowId # jobs[b].workflowId
    /\ Len(Last(jobs[a].runs).executed) >= 1

\* C18: the run endpoint's response to a direct run that failed carries
\* success=false and the error message and failing step of the Run as recorded;
\* its response to a queued request carries queued=true and the id of the job
\* created for the workflow.
C18_EndpointReports ==
  \A c \in CallIds :
    (IsRouteCall(calls[c]) /\ calls[c].pc \in {"returned", "raised"}) =>
      LET resp == RouteResponse(calls[c]) IN
      /\ (calls[c].op = "executeWorkflow" /\ calls[c].pc = "returned"
            /\ calls[c].run[1].status = "error") =>
           /\ resp.status = 500 /\ ~resp.success
           /\ resp.errorStep = calls[c].run[1].errorStep /\ resp.errorStep # 0
           /\ resp.error = calls[c].run[1].error /\ resp.error # ""
      /\ IsEnqueue(calls[c]) =>
           /\ calls[c].pc = "returned"
           /\ resp.status = 200 /\ resp.success /\ resp.queued
           /\ \E j \in JobIds :
                resp.jobId = ToString(j) /\ jobs[j].workflowId = calls[c].workflowId

\* One request answered from a failed direct run and one answered from the queue.
C18_Witness ==
  /\ \E c \in CallIds :
       /\ calls[c].op = "executeWorkflow" /\ calls[c].pc = "returned"
       /\ calls[c].run[1].errorStep = 2
  /\ \E c \in CallIds :
       IsEnqueue(calls[c]) /\ calls[c].probe /\ calls[c].pc = "returned"

\* A path of names is stored in a value when each name in turn is an entry of the
\* mapping reached, or the index of an element of the array reached.
RECURSIVE PathExists(_, _)
PathExists(keys, value) ==
  IF keys = <<>> THEN TRUE
  ELSE /\ \/ value.t = "object" /\ KeyOf(Head(keys)) \in DOMAIN value.fields
          \/ value.t = "array" /\
               \E i \in 1..Len(value.items) : IndexKey(i) = KeyOf(Head(keys))
       /\ PathExists(Tail(keys), Get(value, KeyOf(Head(keys))))
RECURSIVE ValueAt(_, _)
ValueAt(keys, value) ==
  IF keys = <<>> THEN value ELSE ValueAt(Tail(keys), Get(value, KeyOf(Head(keys))))

\* C12: for a returnValue that is one full template and an object output, the
\* displayed output is the value stored at the template's path when the path is
\* stored in the output, and the full output when it is not.
C12_Claim ==
  (modal.rendered /\ Match(modal.returnValue) # <<>> /\ modal.output.t = "object") =>
    LET keys == Split(Trim(Match(modal.returnValue))) IN
    IF PathExists(keys, modal.output)
    THEN modal.processedOutput = ValueAt(keys, modal.output)
    ELSE modal.processedOutput = modal.output

\* C13: an output that is a sequence is displayed unchanged, whatever the
\* returnValue, and so is an extracted sequence that was stored and is shown again.
C13_SequenceUnchanged ==
  (modal.rendered /\ IsArray(modal.output)) =>
    /\ modal.processedOutput = modal.output
    /\ ProcessedOutput(modal.returnValue, modal.processedOutput) = modal.output

\* A sequence extracted from an object output by the returnValue, stored, and
\* shown again under the same returnValue.
C13_Witness ==
  /\ modal.rendered /\ modal.passes >= 1
  /\ modal.returnValue # NoReturnValue
  /\ modal.raw.t = "object"
  /\ IsArray(modal.output) /\ modal.output.items # <<>>

\* C14 as stated: with no returnValue, an object output that has the key user or
\* trigger is displayed without both, unless it has no other key, and then it is
\* displayed unchanged.
C14_Claim ==
  (/\ modal.rendered /\ modal.returnValue = NoReturnValue
   /\ modal.output.t = "object"
   /\ DOMAIN modal.output.fields \cap {"user", "trigger"} # {}) =>
    IF DOMAIN modal.output.fields \ {"user", "trigger"} = {}
    THEN modal.processedOutput = modal.output
    ELSE /\ modal.processedOutput.t = "object"
         /\ DOMAIN modal.processedOutput.fields \cap {"user", "trigger"} = {}

\* C14 as amended: with no returnValue, an object output is displayed with exactly
\* its entries whose key is neither user nor trigger nor a credential name
\* (containing _apikey or _api_key, or a known platform name), unless no entry is
\* left, and then it is displayed unchanged, user and trigger included.
C14_AutoFilter ==
  (/\ modal.rendered /\ modal.returnValue = NoReturnValue
   /\ modal.output.t = "object") =>
    LET kept == DOMAIN modal.output.fields \
                  ({"user", "trigger", "my_api_key", "openai_apikey"}
                     \cup credentialPlatforms) IN
    IF kept = {} THEN modal.processedOutput = modal.output
    ELSE /\ modal.processedOutput.t = "object"
         /\ DOMAIN modal.processedOutput.fields = kept
         /\ \A key \in kept :
              modal.processedOutput.fields[key] = modal.output.fields[key]

\* An output with user next to nothing but credential entries, displayed whole; the
\* output is not the empty object.
C14_Witness ==
  /\ modal.rendered /\ modal.returnValue = NoReturnValue
  /\ modal.output.t = "object"
  /\ DOMAIN modal.output.fields = {"user", "openai"}
  /\ modal.processedOutput = modal.output

\* The header presenting the raw key of row id.
BearerKey(id) == [scheme |-> "Bearer", token |-> RawKey(id)]

\* The row whose key a header presents, 0 when it presents no issued key.
PresentedKey(header) ==
  IF header.scheme = "Bearer" /\ header.token[1] = API_KEY_PREFIX
       /\ header.token[2] \in KeyIds
  THEN header.token[2] ELSE 0

Expired(row, t) == row.expiresAt # 0 /\ row.expiresAt < t
Usable(row, t) == row.isActive /\ ~row.revoked /\ ~Expired(row, t)

\* The request a step adds to the log: its number, 0 when the step adds none.
Added == IF Len(requests') = Len(requests) + 1 THEN Len(requests') ELSE 0

\* C19: an API key authenticates only while it is active, not revoked and not
\* expired. In every state validateApiKey answers 401 to the key of a row that is
\* inactive, revoked or expired, so every call after a revocation fails; a request
\* gets past validateApiKey only with a key that is active, not revoked and not
\* expired at that moment; and no step makes a revoked key usable again.
C19_KeyAuthenticatesWhileValid ==
  /\ [](\A id \in KeyIds :
          ~Usable(apiKeys[id], now) => validateApiKey(BearerKey(id)).status = 401)
  /\ [][\A id \in KeyIds :
          apiKeys[id].revoked =>
            /\ apiKeys'[id].revoked /\ ~apiKeys'[id].isActive
            /\ apiKeys'[id].keyHash = apiKeys[id].keyHash
            /\ ~Usable(apiKeys'[id], now')]_vars
  /\ [][(Added # 0 /\ requests'[Added].status \notin {REDIRECT, 401}) =>
          /\ PresentedKey(requests'[Added].header) # 0
          /\ Usable(apiKeys[PresentedKey(requests'[Added].header)], now)
          /\ requests'[Added].keyId = PresentedKey(requests'[Added].header)]_vars

\* A key that never expires and had been granted execute was revoked by its
\* owner, and the request that presented it afterwards to the execute route was
\* answered 401.
C19_Witness ==
  \E r \in DOMAIN requests :
    /\ PresentedKey(requests[r].header) # 0
    /\ LET row == apiKeys[PresentedKey(requests[r].header)] IN
         /\ row.revoked /\ ~row.isActive /\ row.expiresAt = 0
         /\ row.revokedAt <= requests[r].at
         /\ row.permissions["workflows"]["execute"] = "true"
    /\ requests[r].route = "POST /workflows/[id]/execute"
    /\ requests[r].status = 401

\* Validation of a header, spelled from the rows: the header presents an issued
\* key whose row is active, not revoked and not expired.
PassesValidation(header) ==
  /\ PresentedKey(header) # 0
  /\ Usable(apiKeys[PresentedKey(header)], now)

RouteNamed(name) == CHOOSE route \in Routes : route.name = name

\* The stored permission of a row for a route is exactly true.
Granted(row, route) ==
  /\ route.resource \in DOMAIN row.permissions
  /\ route.action \in DOMAIN row.permissions[route.resource]
  /\ row.permissions[route.resource][route.action] = "true"

\* C20: on every route of /api/external but health, a request whose key fails
\* validation is answered 401, a request whose key lacks the permission of the
\* route is answered 403, and neither uses a workflow, a credential or a run;
\* checkPermission is true only where the stored permission is exactly true.
C20_Claim ==
  /\ [](\A id \in KeyIds, route \in Routes :
          checkPermission(apiKeys[id].permissions, route.resource, route.action)
            <=> Granted(apiKeys[id], route))
  /\ [][Added # 0 =>
          LET e == requests'[Added]
              route == RouteNamed(e.route)
              passes == PassesValidation(e.header)
              granted == passes /\ Granted(apiKeys[PresentedKey(e.header)], route) IN
          /\ (~passes => e.status = 401)
          /\ ((passes /\ ~granted) => e.status = 403)
          /\ (e.status \in {401, 403} => e.used = {})
          /\ (e.used # {} => granted)]_vars

\* The owner of the key a request was validated with.
KeyOwner(r) == apiKeys[requests[r].keyId].userId

\* C21: GET /api/external/workflows returns only workflows owned by the user of
\* the authenticated API key: the list returned to the key of one user never
\* holds a workflow whose userId is another user.
C21_Claim ==
  \A r \in DOMAIN requests :
    (requests[r].route = "GET /workflows" /\ requests[r].status = 200) =>
      \A w \in requests[r].workflows : w.userId = KeyOwner(r)

\* C22: GET /api/external/health requires no authentication: a request with
\* neither a session nor an API key passes the middleware and receives the
\* handler's status 'ok' response.
C22_Claim ==
  \A r \in DOMAIN requests :
    (requests[r].route = "GET /health" /\ ~requests[r].session
       /\ requests[r].header = NoHeader) =>
      requests[r].status = 200 /\ requests[r].body = "ok"

\* The audit log holds the entry of request r: the key id, the action and the
\* resource of the route, and the status of the response.
AuditLogged(r) ==
  \E a \in DOMAIN auditLog :
    /\ auditLog[a].request = r
    /\ auditLog[a].apiKeyId = requests[r].keyId
    /\ auditLog[a].action = RouteNamed(requests[r].route).audit
    /\ auditLog[a].responseStatus = requests[r].status

\* C23: every call made with an API key to a route of /api/external is audit
\* logged with the key id, action, resource and response status, whatever its
\* outcome: success, not found, validation error, permission denied, server error.
C23_Claim ==
  \A r \in DOMAIN requests :
    (requests[r].route # "GET /health" /\ requests[r].keyId # 0) => AuditLogged(r)

\* Following keys from value through mappings only, a value that is not a
\* mapping (a scalar, null or a sequence) is reached while keys remain.
RECURSIVE MeetsNonMapping(_, _)
MeetsNonMapping(keys, value) ==
  /\ keys # <<>>
  /\ \/ value.t # "object"
     \/ /\ KeyOf(Head(keys)) \in DOMAIN value.fields
        /\ MeetsNonMapping(Tail(keys), value.fields[KeyOf(Head(keys))])

\* C24: during the traversal of a template path, when the current value is not a
\* traversable mapping (a scalar, null or a sequence) while segments remain, the
\* path fails and the full raw output is displayed; a sequence is never entered
\* by index or by property name.
C24_Claim ==
  (modal.rendered /\ Match(modal.returnValue) # <<>> /\ modal.output.t = "object") =>
    (MeetsNonMapping(Split(Trim(Match(modal.returnValue))), modal.output) =>
       modal.processedOutput = modal.output)

\* The keys of the model the auto-filter is to remove: user and trigger, the keys
\* that contain _apikey or _api_key, and the credential-platform names.
Removable ==
  {"user", "trigger"} \cup {"my_api_key", "openai_apikey"}
    \cup {"openai", "anthropic", "youtube", "slack", "twitter", "github", "reddit"}

\* C25: with no returnValue and an object output, the auto-filter removes exactly
\* the entries whose key is user or trigger, contains _apikey or _api_key, or is a
\* credential-platform name; every other entry is kept with its value unchanged;
\* and if every key would be removed, the unfiltered output is displayed.
C25_AutoFilterExact ==
  (/\ modal.rendered /\ modal.returnValue = NoReturnValue
   /\ modal.output.t = "object") =>
    /\ modal.processedOutput.t = "object"
    /\ DOMAIN modal.output.fields \subseteq Removable =>
         modal.processedOutput = modal.output
    /\ ~(DOMAIN modal.output.fields \subseteq Removable) =>
         /\ \A key \in DOMAIN modal.output.fields :
              key \in DOMAIN modal.processedOutput.fields <=> key \notin Removable
         /\ \A key \in DOMAIN modal.processedOutput.fields :
              /\ key \in DOMAIN modal.output.fields
              /\ modal.processedOutput.fields[key] = modal.output.fields[key]

\* An output with an internal key, a key containing _api_key, a platform key and
\* the keys now and result, displayed with now and result alone.
C25_Witness ==
  /\ modal.rendered /\ modal.returnValue = NoReturnValue
  /\ modal.output.t = "object"
  /\ {"user", "my_api_key", "openai", "now", "result"}
       \subseteq DOMAIN modal.output.fields
  /\ modal.processedOutput.t = "object"
  /\ DOMAIN modal.processedOutput.fields = {"now", "result"}

\* C29: with no returnValue, the auto-filter applied to its own result returns
\* that result unchanged, also when the first application fell back to the
\* unfiltered output: what is displayed for a stored, already filtered output is
\* that output.
C29_FilterIdempotent ==
  (modal.rendered /\ modal.returnValue = NoReturnValue /\ modal.raw.t = "object") =>
    /\ ProcessedOutput(NoReturnValue, modal.processedOutput) = modal.processedOutput
    /\ modal.passes >= 1 => modal.processedOutput = modal.output

\* The filter was applied twice to an output that has an internal key and a
\* credential key and no other: the first application fell back to the whole
\* output and the second displays it again.
C29_Witness ==
  /\ modal.rendered /\ modal.returnValue = NoReturnValue /\ modal.passes >= 1
  /\ modal.raw.t = "object"
  /\ DOMAIN modal.raw.fields = {"user", "openai"}
  /\ modal.processedOutput = modal.raw

\* C26: queueWorkflowExecution gives the job the priority the caller supplied,
\* for every supplied value including 0, uses the default priority 5 only when
\* the caller supplies none, and passes a supplied delay to the job unchanged.
C26_Claim ==
  [][Len(jobs') = Len(jobs) + 1 =>
       LET job == jobs'[Len(jobs')] IN
       /\ job.options.hasPriority => job.priority = job.options.priority
       /\ ~job.options.hasPriority => job.priority = 5
       /\ job.options.hasDelay => job.delay = job.options.delay]_vars

\* The attempts of a job whose run had success=true.
Successes(job) == {i \in 1..Len(job.runs) : job.runs[i].status = "success"}

\* C27: a job is completed if and only if one of its attempts produced a run
\* with success=true, and is terminally failed if and only if all its attempts
\* were made and each produced a run with success=false or raised; a run with
\* success=false never leaves its job completed.
C27_JobOutcome ==
  \A j \in JobIds :
    /\ jobs[j].state = "completed" <=> Successes(jobs[j]) # {}
    /\ Successes(jobs[j]) \subseteq {Len(jobs[j].runs)}
    /\ TerminallyFailed(jobs[j]) <=>
         (jobs[j].attemptsMade = attempts /\ Successes(jobs[j]) = {})
    /\ Len(jobs[j].runs) <= jobs[j].attemptsMade
    /\ jobs[j].attemptsMade <= attempts

\* One job completed by an attempt that followed a run with success=false, and
\* another terminally failed after an attempt that raised.
C27_Witness ==
  \E j, k \in JobIds :
    /\ jobs[j].state = "completed" /\ Len(jobs[j].runs) >= 2
    /\ jobs[j].runs[1].status = "error"
    /\ TerminallyFailed(jobs[k]) /\ Len(jobs[k].runs) < attempts

\* C28: every job for which queueWorkflowExecution returned queued=true is
\* eventually picked up by a worker and reaches completed or terminally failed,
\* under fair scheduling, for every outcome of initializeWorkflowQueue and every
\* ordering of initialization and enqueue calls.
C28_Claim ==
  \A j \in 1..MaxCalls :
    (j \in JobIds) ~> (j \in JobIds /\ Finished(jobs[j]))

\* C30: when the server-side trackTwitterUsage calls of one type have all
\* completed, none of them met a database failure and none found a window
\* expired, the stored count of each of the four windows has increased by the
\* number of the calls, whatever the interleaving of their reads and writes; and
\* every completed call returned to its caller, the error logged at worst.
TrackersOf(type) == {t \in 1..Len(trackers) : trackers[t].type = type}

C30_Claim ==
  /\ \A t \in 1..Len(trackers) :
       trackers[t].pc = "returned" => trackers[t].outcome \in {"tracked", "logged"}
  /\ \A type \in UsageTypes :
       LET ts == TrackersOf(type)
           rows == RowsWithKey(UsageKey(type))
       IN  ( /\ ts # {}
             /\ \A t \in ts : /\ trackers[t].pc = "returned"
                              /\ ~trackers[t].dbFailed
                              /\ trackers[t].reset = {} )
           => /\ rows # <<>>
              /\ \A w \in Windows : Head(rows).value[w].count = Cardinality(ts)

=============================================================================
